---- MODULE Spec2Model ----
(***************************************************************************)
(* Model of the clip-app pipeline of ShravanChintha/ml-exp:                *)
(*   kafka_config.py    producers and consumers of the two topics          *)
(*   image_processor.py the worker (group clip-processors)                 *)
(*   realtime_app.py    the WebSocket front end (group webapp-results)     *)
(*   simple_api.py      the polling API (group simple-api-results)         *)
(* Timestamps and filenames are left out of the messages: no handler       *)
(* modelled here branches on them.                                         *)
(***************************************************************************)
EXTENDS Integers, Sequences, FiniteSets, TLC

\* ---------------------------------------------------------------- bounds
\* request ids handed out in all (uuid4 calls)
MaxRequests == 2
\* request ids handed out in the routing specification
MaxRouted == 1
\* workers of group clip-processors
NumWorkers == 2
\* WebSocket connections ever accepted
MaxConns == 2

\* clock ticks, each a second longer than the TTL
MaxTicks == 1

\* ------------------------------------------------------ program constants
\* the TTL in seconds of both Redis keys of add_request_for_user
CorrelationTtl == 3600
\* 10 * 1024 * 1024, the upload size limit of both front ends
MaxImageBytes == 10485760
\* PRODUCER_CONFIG['max_request_size']
MaxRequestSize == 10485760

\* Python's None, kept a string so that every field has one type
None == "<None>"
\* "no connection" / "no request id"
NoConn == 0
NoId == 0

RequestIds == 1..MaxRequests
Workers == 1..NumWorkers
\* two front-end instances of realtime_app, members of webapp-results
Instances == {1, 2}
ConnIds == 1..MaxConns
Users == {"alice", "bob"}

\* inputs of the upload endpoints
ContentTypes == {"image/jpeg", "text/plain"}
PayloadSizes == {51200, MaxImageBytes, MaxImageBytes + 1}

\* what the Image Analysis Engine can return: an ordered list of
\* (label, confidence) pairs (confidence in hundredths of a percent)
EngineResults ==
    { << [label |-> "cat", confidence |-> 9120],
         [label |-> "dog", confidence |-> 530] >> }
\* str(e) of what the engine can raise; Exception() has the empty text
EngineErrors == {"", "cannot identify image file"}
\* one call of analyze_image: it returns results or raises
EngineOutcomes ==
    {[raised |-> FALSE, results |-> r, text |-> None] : r \in EngineResults}
    \cup {[raised |-> TRUE, results |-> <<>>, text |-> t] : t \in EngineErrors}

\* outcome of producer.send(...) followed by future.get(timeout=10):
\*   ok          stored by the broker, the call returns
\*   refused     not stored, the call raises
\*   ack_timeout stored by the broker, but the acknowledgment is not seen
\*               within the 10 s of future.get, so the call raises
\*   too_large   the serialized message exceeds max_request_size:
\*               producer.send raises before anything reaches the broker
SendOutcomes == {"ok", "refused", "ack_timeout"}
Stored(outcome) == outcome \in {"ok", "ack_timeout"}
Raises(outcome) == outcome # "ok"
SendErrorText(outcome) ==
    IF outcome = "refused" THEN "NoBrokersAvailable" ELSE "KafkaTimeoutError"

VARIABLES
    producers,          \* per front-end instance: its KafkaImageProducer
    nextId,             \* uuid4(): the next unused request id
    imageUploads,       \* topic image-uploads: sequence of [key, value]
    analysisResults,    \* topic analysis-results: sequence of [key, value]
    resultOrigin,       \* history, parallel to analysisResults: how each
                        \* result came about
    jobNext,            \* group clip-processors: next offset of image-uploads
    workers,            \* per worker: position in process_image_message
    position,           \* per worker: offsets of image-uploads the consumer
                        \* has yielded and not yet committed
    jobCommitted,       \* group clip-processors: the committed offsets
    redeliver,          \* offsets the group has to deliver again
    deliveryCount,      \* history: deliveries of job messages made so far
    failures,           \* history: deliveries whose processing raised and
                        \* has returned to the consume loop
    request_user,       \* Redis request_user:{request_id} -> user_id
    user_requests,      \* Redis user_requests:{user_id} -> list of ids
    now,                \* the Redis server's clock, in seconds
    request_user_exp,   \* per request id: when request_user:{id} expires
                        \* (0: never written)
    user_requests_exp,  \* per user: when user_requests:{id} expires
    lookups,            \* history: the owner lookups of the result routers
    active_connections, \* per instance: ConnectionManager.active_connections
    conns,              \* the WebSocket connections ever accepted (since:
                        \* history, the value of nextId at the accept)
    inbox,              \* per connection: the messages the client received
    sendFailures,       \* history: the send_text calls that raised
    handlers,           \* per instance: the event loop's upload handler
    routers,            \* per instance: the results-consumer thread
    resNextW,           \* group webapp-results: next offset
    pending_requests,   \* simple_api.pending_requests
    analysis_results,   \* simple_api.analysis_results
    consumerThread,     \* simple_api: the results-consumer thread
    queryHandler,       \* simple_api: the event loop's running handler
    resNextQ,           \* group simple-api-results: next offset
    shownTerminal,      \* history: ids a status read has shown completed
    lastHttp            \* the last HTTP exchange (request and response)

brokerVars == <<nextId, imageUploads, analysisResults, resultOrigin>>
groupVars == <<jobNext, position, jobCommitted, redeliver, deliveryCount>>
workerVars == <<groupVars, workers, failures>>
ttlVars == <<now, request_user_exp, user_requests_exp>>
storeVars == <<request_user, user_requests, ttlVars>>
connVars == <<active_connections, conns, inbox, sendFailures>>
frontVars == <<handlers, routers, resNextW, lookups>>
queryVars == <<pending_requests, analysis_results, consumerThread,
               queryHandler, resNextQ, shownTerminal>>
vars == <<producers, brokerVars, workerVars, storeVars, connVars, frontVars,
          queryVars, lastHttp>>

\* ------------------------------------------------------------- helpers
\* Python truthiness of an optional string: None and "" are false
Truthy(s) == s # None /\ s # ""

\* str.startswith('image/')
IsImageType(ct) == ct \in {"image/jpeg", "image/png"}

\* the two checks of upload_image / analyze_image
ValidUpload_NoSizeCheck(ct, sz) == IsImageType(ct)
ValidUpload(ct, sz) == IsImageType(ct) /\ sz <= MaxImageBytes

\* str(uuid.uuid4()): a value never returned before
Uuid4_Reused == IF nextId > 1 THEN nextId - 1 ELSE nextId
Uuid4 == nextId

\* base64.b64encode(image_data): 4 characters for every 3 bytes, the
\* last group padded
B64Len(n) == 4 * ((n + 2) \div 3)

\* the bytes of json.dumps(message).encode('utf-8') for a payload of sz
\* bytes: the base64 text of the image (the other fields of the message,
\* which depend on the file name, only add to it)
JobMessageBytes(sz) == B64Len(sz)

\* producer.send of a job message for a payload of sz bytes: it raises
\* when the message exceeds max_request_size, whatever the broker does
JobSendOutcome(sz, outcome) ==
    IF JobMessageBytes(sz) > MaxRequestSize THEN "too_large" ELSE outcome

\* the job message of send_image_for_analysis; 'user_id': user_id or
\* 'anonymous'
JobMessage(request_id, user_id) ==
    [key |-> request_id,
     value |-> [request_id |-> request_id,
                user_id |-> IF Truthy(user_id) THEN user_id ELSE "anonymous",
                status |-> "pending"]]

\* 'completed' if not error else 'failed'
ResultStatus(error) == IF ~Truthy(error) THEN "completed" ELSE "failed"

\* the result message of send_analysis_result
ResultMessage_Unkeyed(request_id, results, user_id, processing_time, error) ==
    [key |-> NoId,
     value |-> [request_id |-> request_id,
                user_id |-> user_id,
                results |-> results,
                processing_time |-> processing_time,
                error |-> error,
                status |-> IF ~Truthy(error) THEN "completed" ELSE "failed"]]
ResultMessage(request_id, results, user_id, processing_time, error) ==
    [key |-> request_id,
     value |-> [request_id |-> request_id,
                user_id |-> user_id,
                results |-> results,
                processing_time |-> processing_time,
                error |-> error,
                status |-> ResultStatus(error)]]

\* an HTTP exchange: the request's inputs and the response
Http(op, ct, sz, broker, code, status, rid, predictions) ==
    [op |-> op, ctype |-> ct, size |-> sz, broker |-> broker, code |-> code,
     status |-> status, request_id |-> rid, predictions |-> predictions]

\* Python dicts: d[k] = v, d.pop(k, None), d.clear()
DictSet_KeepFirst(d, k, v) ==
    [x \in DOMAIN d \cup {k} |-> IF x \in DOMAIN d THEN d[x] ELSE v]
DictSet(d, k, v) == [x \in DOMAIN d \cup {k} |-> IF x = k THEN v ELSE d[x]]
DictPop(d, k) == [x \in DOMAIN d \ {k} |-> d[x]]
EmptyDict == <<>>

NoJob == [request_id |-> NoId, user_id |-> None, status |-> None]
IdleWorker == [pc |-> "idle", msg |-> NoJob, results |-> <<>>,
               error |-> None, engineRaised |-> FALSE, delivery |-> 0]
IdleHandler == [pc |-> "idle", user |-> None, rid |-> NoId,
                ctype |-> None, size |-> 0]
IdleThread == [pc |-> "idle", rid |-> NoId]
IdleQuery == [pc |-> "idle", rid |-> NoId]

\* ------------------------------------- KafkaImageProducer.connect
\* max_retries = 5
max_retries == 5

\* time.sleep(2 ** retry_count)
Backoff_Linear(retry_count) == 2 * retry_count
Backoff(retry_count) == 2 ^ retry_count

\* a KafkaImageProducer: pc is the position in connect ("try": at the
\* loop test, "sleep": at time.sleep, "returned", "raised"), producer is
\* self.producer; attempts and slept are history (the KafkaProducer(...)
\* calls made, the seconds of each time.sleep)
NewProducer == [pc |-> "try", retry_count |-> 0, producer |-> None,
                attempts |-> 0, slept |-> <<>>]
ConnectedProducer == [NewProducer EXCEPT !.pc = "returned",
                                         !.producer = "KafkaProducer",
                                         !.attempts = 1]

\* one pass of "while retry_count < max_retries": KafkaProducer(...)
\* returns (available) or raises
ConnectAttempt(i, available) ==
    /\ producers[i].pc = "try"
    /\ LET P == producers[i]
           retry_count == P.retry_count + 1
       IN  producers' = [producers EXCEPT ![i] =
               IF ~(P.retry_count < max_retries)
               THEN [P EXCEPT !.pc = "returned"]
               ELSE IF available
               THEN [P EXCEPT !.pc = "returned",
                              !.producer = "KafkaProducer",
                              !.attempts = @ + 1]
               ELSE [P EXCEPT !.retry_count = retry_count,
                              !.attempts = @ + 1,
                              !.pc = IF retry_count < max_retries
                                     THEN "sleep" ELSE "raised"]]
    /\ UNCHANGED <<brokerVars, workerVars, storeVars, connVars, frontVars,
                   queryVars, lastHttp>>

\* time.sleep(2 ** retry_count) returns
ConnectSleep(i) ==
    /\ producers[i].pc = "sleep"
    /\ producers' = [producers EXCEPT
           ![i].slept = Append(@, Backoff(producers[i].retry_count)),
           ![i].pc = "try"]
    /\ UNCHANGED <<brokerVars, workerVars, storeVars, connVars, frontVars,
                   queryVars, lastHttp>>

\* ------------------------------------------------- ConnectionManager
NoResult == [request_id |-> NoId, user_id |-> None, results |-> <<>>,
             processing_time |-> None, error |-> None, status |-> None]
\* the messages of the push channel
PushMessage(type, request_id, data) ==
    [type |-> type, request_id |-> request_id, data |-> data]

RedisOutcomes == {"ok", "error"}

IsOpen(c) == conns[c].state = "open"

\* the connections send_personal_message writes to: the one registered
\* under user_id in this instance, if any
PersonalTargets_Everyone(reg, user_id) == {reg[u] : u \in Users} \ {NoConn}
PersonalTargets(reg, user_id) == {reg[user_id]} \ {NoConn}

\* a send_text call that raised
SendFailure(i, user_id, c, message) ==
    [inst |-> i, user |-> user_id, conn |-> c, message |-> message]

\* send_text on each connection of T; a send that raises is followed by
\* disconnect(user_id), which drops the registry entry and deletes the
\* user's Redis list (a Redis error there is caught and logged)
SendTo(i, T, message, redis) ==
    LET reg == active_connections[i]
        failed == {u \in Users : reg[u] \in T /\ ~IsOpen(reg[u])}
    IN  /\ inbox' = [c \in DOMAIN inbox |->
                        IF c \in T /\ IsOpen(c)
                        THEN inbox[c] \cup {message} ELSE inbox[c]]
        /\ active_connections' =
               [active_connections EXCEPT
                   ![i] = [u \in Users |->
                             IF u \in failed THEN NoConn ELSE reg[u]]]
        /\ user_requests' =
               [u \in Users |->
                   IF u \in failed /\ redis = "ok"
                   THEN <<>> ELSE user_requests[u]]
        /\ sendFailures' = sendFailures \cup
               {SendFailure(i, u, reg[u], message) : u \in failed}

send_personal_message(i, message, user_id, redis) ==
    SendTo(i, PersonalTargets(active_connections[i], user_id), message, redis)

\* websocket_endpoint up to its receive loop: accept, register, welcome
Connect(i, u) ==
    /\ handlers[i].pc = "idle"
    /\ Len(conns) < MaxConns
    /\ LET c == Len(conns) + 1 IN
        /\ conns' = Append(conns, [user |-> u, inst |-> i, state |-> "open",
                                   since |-> nextId])
        /\ inbox' = Append(inbox,
               {PushMessage("connection_established", NoId, NoResult)})
        /\ active_connections' = [active_connections EXCEPT ![i][u] = c]
    /\ UNCHANGED <<producers, brokerVars,
                   workerVars, storeVars, sendFailures, frontVars,
                   queryVars, lastHttp>>

\* the client goes away; the server has not noticed yet
ClientGone(c) ==
    /\ c \in DOMAIN conns
    /\ conns[c].state = "open"
    /\ conns' = [conns EXCEPT ![c].state = "dead"]
    /\ UNCHANGED <<producers, brokerVars,
                   workerVars, storeVars, active_connections,
                   inbox, sendFailures, frontVars, queryVars, lastHttp>>

\* receive_text raises WebSocketDisconnect: manager.disconnect(user_id)
Disconnected_DropsOwnerEntries(c, redis) ==
    /\ c \in DOMAIN conns
    /\ conns[c].state = "dead"
    /\ handlers[conns[c].inst].pc = "idle"
    /\ conns' = [conns EXCEPT ![c].state = "closed"]
    /\ active_connections' =
           [active_connections EXCEPT ![conns[c].inst][conns[c].user] = NoConn]
    /\ user_requests' = IF redis = "ok"
                        THEN [user_requests EXCEPT ![conns[c].user] = <<>>]
                        ELSE user_requests
    /\ request_user' = [r \in RequestIds |->
                           IF request_user[r] = conns[c].user THEN None
                           ELSE request_user[r]]
    /\ UNCHANGED <<producers, brokerVars, workerVars, ttlVars, inbox,
                   sendFailures, frontVars, queryVars, lastHttp>>
Disconnected(c, redis) ==
    /\ c \in DOMAIN conns
    /\ conns[c].state = "dead"
    /\ handlers[conns[c].inst].pc = "idle"
    /\ conns' = [conns EXCEPT ![c].state = "closed"]
    /\ active_connections' =
           [active_connections EXCEPT ![conns[c].inst][conns[c].user] = NoConn]
    /\ user_requests' = IF redis = "ok"
                        THEN [user_requests EXCEPT ![conns[c].user] = <<>>]
                        ELSE user_requests
    /\ UNCHANGED <<producers, brokerVars,
                   workerVars, request_user, ttlVars, inbox,
                   sendFailures, frontVars, queryVars, lastHttp>>

\* --------------------------------------------- realtime_app.upload_image
\* validation and send_image_for_analysis. A validation HTTPException(400)
\* is raised inside the handler's try and caught by its
\* "except Exception", which raises HTTPException(500) in its place.
UploadImage(i, u, ct, sz, outcome) ==
    /\ producers[i].producer # None
    /\ handlers[i].pc = "idle"
    /\ IF ~ValidUpload(ct, sz)
       THEN /\ lastHttp' = Http("upload_image", ct, sz, "none", 500,
                                "error", NoId, <<>>)
            /\ UNCHANGED <<brokerVars, handlers>>
       ELSE /\ nextId <= MaxRequests
            /\ LET request_id == Uuid4
                   sent == JobSendOutcome(sz, outcome)
               IN
                /\ nextId' = nextId + 1
                /\ imageUploads' =
                       IF Stored(sent)
                       THEN Append(imageUploads, JobMessage(request_id, u))
                       ELSE imageUploads
                /\ IF Raises(sent)
                   THEN /\ lastHttp' = Http("upload_image", ct, sz, sent,
                                            500, "error", NoId, <<>>)
                        /\ UNCHANGED handlers
                   ELSE /\ handlers' = [handlers EXCEPT ![i] =
                               [pc |-> "track", user |-> u,
                                rid |-> request_id,
                                ctype |-> ct, size |-> sz]]
                        /\ UNCHANGED lastHttp
            /\ UNCHANGED <<analysisResults, resultOrigin>>
    /\ UNCHANGED <<producers, workerVars, storeVars, connVars, routers,
                   resNextW, lookups, queryVars>>

\* manager.add_request_for_user: lpush + expire(key, 3600) of the user's
\* list, then set(reverse_key, user_id, ex=3600); a Redis error at either
\* point is caught
AddRequestFailPoints == {"none", "lpush", "set"}
UploadTrack(i, fail) ==
    /\ handlers[i].pc = "track"
    /\ LET u == handlers[i].user
            r == handlers[i].rid
        IN  /\ user_requests' =
                   IF fail = "lpush" THEN user_requests
                   ELSE [user_requests EXCEPT ![u] = <<r>> \o @]
            /\ user_requests_exp' =
                   IF fail = "lpush" THEN user_requests_exp
                   ELSE [user_requests_exp EXCEPT ![u] = now + CorrelationTtl]
            /\ request_user' =
                   IF fail = "none" THEN [request_user EXCEPT ![r] = u]
                   ELSE request_user
            /\ request_user_exp' =
                   IF fail = "none"
                   THEN [request_user_exp EXCEPT ![r] = now + CorrelationTtl]
                   ELSE request_user_exp
    /\ handlers' = [handlers EXCEPT ![i].pc = "notify"]
    /\ UNCHANGED <<producers, brokerVars,
                   workerVars, now, connVars, routers, resNextW,
                   lookups, queryVars, lastHttp>>

\* Redis drops a key once its expiry time is reached
Expired_Never(exp, t) == FALSE
Expired(exp, t) == exp # 0 /\ t >= exp
TickSeconds == CorrelationTtl + 1

\* time passes: the clock advances and the keys that are due expire
Tick ==
    /\ now < MaxTicks * TickSeconds
    /\ now' = now + TickSeconds
    /\ request_user' =
           [r \in RequestIds |->
               IF Expired(request_user_exp[r], now') THEN None
               ELSE request_user[r]]
    /\ user_requests' =
           [u \in Users |->
               IF Expired(user_requests_exp[u], now') THEN <<>>
               ELSE user_requests[u]]
    /\ UNCHANGED <<producers, brokerVars, workerVars, request_user_exp,
                   user_requests_exp, connVars, frontVars, queryVars,
                   lastHttp>>

\* the upload_received push and the 200 response
UploadNotify(i, redis) ==
    /\ handlers[i].pc = "notify"
    /\ send_personal_message(i,
           PushMessage("upload_received", handlers[i].rid, NoResult),
           handlers[i].user, redis)
    /\ lastHttp' = Http("upload_image", handlers[i].ctype, handlers[i].size,
                         "ok", 200, "success", handlers[i].rid, <<>>)
    /\ handlers' = [handlers EXCEPT ![i] = IdleHandler]
    /\ UNCHANGED <<producers, brokerVars,
                   workerVars, request_user, ttlVars, conns,
                   routers, resNextW, lookups, queryVars>>

\* ------------------------------------- realtime_app.consume_results
\* size, seen, failed: the dict iterator of broadcast (the size of the
\* registry when the loop began, NotStarted before), the user_ids it has
\* yielded, and disconnected_users
NotStarted == -1
IdleRouter == [pc |-> "idle", rid |-> NoId, user |-> None, data |-> NoResult,
               size |-> NotStarted, seen |-> {}, failed |-> {}]

\* redis_client.get(request_user:{request_id}); an exception gives None
get_user_for_request_NoCatch(request_id, redis) == request_user[request_id]
get_user_for_request(request_id, redis) ==
    IF redis = "error" THEN None ELSE request_user[request_id]

\* KafkaResultsConsumer hands the next result of the group to the
\* instance; handle_result looks the owner up
RouterConsume(i, redis) ==
    /\ routers[i].pc = "idle"
    /\ resNextW <= Len(analysisResults)
    /\ resNextW' = resNextW + 1
    /\ LET result_data == analysisResults[resNextW].value
            request_id == result_data.request_id
            user_id == get_user_for_request(request_id, redis)
        IN  /\ routers' = [routers EXCEPT ![i] =
                   IF Truthy(user_id)
                   THEN [IdleRouter EXCEPT !.pc = "send",
                                           !.rid = request_id,
                                           !.user = user_id,
                                           !.data = result_data]
                   ELSE IdleRouter]
            /\ lookups' = lookups \cup
                   {[offset |-> resNextW, rid |-> request_id, at |-> now,
                     redis |-> redis, owner |-> user_id,
                     pc |-> IF Truthy(user_id) THEN "send" ELSE "idle"]}
    /\ UNCHANGED <<producers, brokerVars,
                   workerVars, storeVars, connVars, handlers,
                   queryVars, lastHttp>>

\* handle_result: the analysis_result for the owner
RouterSend(i, redis) ==
    /\ routers[i].pc = "send"
    /\ send_personal_message(i,
           PushMessage("analysis_result", routers[i].rid, routers[i].data),
           routers[i].user, redis)
    /\ routers' = [routers EXCEPT ![i].pc = "broadcast"]
    /\ UNCHANGED <<producers, brokerVars,
                   workerVars, request_user, ttlVars, conns,
                   handlers, resNextW, lookups, queryVars, lastHttp>>

\* handle_result: the system_stats broadcast, one step of
\*   for user_id, connection in self.active_connections.items(): ...
\* per action. The loop runs in the results-consumer thread while the
\* event loop thread connects and disconnects: when the registry has
\* changed size since the loop began, the iterator raises RuntimeError,
\* which leaves broadcast before its clean-up loop and is caught by
\* handle_result. An exhausted iterator is followed by the clean-up:
\* disconnect(user_id) for every user of disconnected_users.
RouterBroadcast(i, redis) ==
    /\ routers[i].pc = "broadcast"
    /\ LET reg == active_connections[i]
           registered == {u \in Users : reg[u] # NoConn}
           rt == routers[i]
           size == IF rt.size = NotStarted THEN Cardinality(registered)
                   ELSE rt.size
           todo == registered \ rt.seen
           message == PushMessage("system_stats", NoId, NoResult)
       IN  IF Cardinality(registered) # size
           THEN /\ routers' = [routers EXCEPT ![i] = IdleRouter]
                /\ UNCHANGED <<active_connections, inbox, sendFailures,
                               user_requests>>
           ELSE IF todo = {}
           THEN /\ active_connections' =
                       [active_connections EXCEPT
                           ![i] = [u \in Users |->
                                     IF u \in rt.failed THEN NoConn
                                     ELSE reg[u]]]
                /\ user_requests' =
                       [u \in Users |->
                           IF u \in rt.failed /\ redis = "ok"
                           THEN <<>> ELSE user_requests[u]]
                /\ routers' = [routers EXCEPT ![i] = IdleRouter]
                /\ UNCHANGED <<inbox, sendFailures>>
           ELSE LET u == CHOOSE x \in todo : \A y \in todo : reg[x] <= reg[y]
                    c == reg[u]
                IN  /\ inbox' = IF IsOpen(c)
                                THEN [inbox EXCEPT ![c] = @ \cup {message}]
                                ELSE inbox
                    /\ sendFailures' =
                           IF IsOpen(c) THEN sendFailures
                           ELSE sendFailures \cup
                                    {SendFailure(i, u, c, message)}
                    /\ routers' = [routers EXCEPT
                           ![i].size = size,
                           ![i].seen = @ \cup {u},
                           ![i].failed = IF IsOpen(c) THEN @ ELSE @ \cup {u}]
                    /\ UNCHANGED <<active_connections, user_requests>>
    /\ UNCHANGED <<producers, brokerVars,
                   workerVars, request_user, ttlVars, conns,
                   handlers, resNextW, lookups, queryVars, lastHttp>>

\* ------------------------------------------ image_processor (worker)
\* the smallest offset of a non-empty set of offsets
MinOffset(S) == CHOOSE k \in S : \A j \in S : k <= j

\* consume_images: the next message of the group goes to one worker, an
\* offset to be delivered again before a new one; the consumer's position
\* moves past the message when it is yielded
WorkerDequeue(w) ==
    /\ workers[w].pc = "idle"
    /\ LET again == redeliver # {}
           offset == IF again THEN MinOffset(redeliver) ELSE jobNext
       IN  /\ offset <= Len(imageUploads)
           /\ jobNext' = IF again THEN jobNext ELSE jobNext + 1
           /\ redeliver' = redeliver \ {offset}
           /\ position' = [position EXCEPT ![w] = @ \cup {offset}]
           /\ deliveryCount' = deliveryCount + 1
           /\ workers' = [workers EXCEPT ![w] =
                  [IdleWorker EXCEPT !.pc = "analyze",
                                     !.msg = imageUploads[offset].value,
                                     !.delivery = deliveryCount + 1]]
    /\ UNCHANGED <<producers, brokerVars,
                   jobCommitted, failures, storeVars, connVars,
                   frontVars, queryVars, lastHttp>>

\* process_image_message: self.analyze_image(...) returns or raises
WorkerAnalyze(w, engine) ==
    /\ workers[w].pc = "analyze"
    /\ workers' =
           IF engine.raised
           THEN [workers EXCEPT ![w].pc = "send_error",
                                ![w].error = engine.text,
                                ![w].engineRaised = TRUE]
           ELSE [workers EXCEPT ![w].pc = "send_result",
                                ![w].results = engine.results]
    /\ UNCHANGED <<producers, brokerVars,
                   groupVars, failures, storeVars, connVars,
                   frontVars, queryVars, lastHttp>>

Origin(w) == [job |-> workers[w].msg.request_id,
              engineRaised |-> workers[w].engineRaised,
              text |-> workers[w].error,
              delivery |-> workers[w].delivery,
              worker |-> w]

\* the try branch: send_analysis_result with the predictions; when it
\* raises, control goes to the except branch with str(e)
WorkerSendResult(w, outcome) ==
    /\ workers[w].pc = "send_result"
    /\ LET m == workers[w].msg
            message == ResultMessage(m.request_id, workers[w].results,
                                     m.user_id, "elapsed", None)
        IN  /\ IF Stored(outcome)
               THEN /\ analysisResults' = Append(analysisResults, message)
                    /\ resultOrigin' = Append(resultOrigin, Origin(w))
               ELSE UNCHANGED <<analysisResults, resultOrigin>>
            /\ workers' = [workers EXCEPT ![w] =
                   IF Raises(outcome)
                   THEN [@ EXCEPT !.pc = "send_error",
                                  !.error = SendErrorText(outcome)]
                   ELSE IdleWorker]
    /\ UNCHANGED <<producers, nextId, imageUploads, groupVars, failures,
                   storeVars, connVars, frontVars, queryVars, lastHttp>>

\* the except branch: send_analysis_result with results=[] and
\* error=str(e); when it raises too, consume_images catches and continues
WorkerSendError(w, outcome) ==
    /\ workers[w].pc = "send_error"
    /\ LET m == workers[w].msg
            message == ResultMessage(m.request_id, <<>>, m.user_id, None,
                                     workers[w].error)
        IN  IF Stored(outcome)
            THEN /\ analysisResults' = Append(analysisResults, message)
                 /\ resultOrigin' = Append(resultOrigin, Origin(w))
            ELSE UNCHANGED <<analysisResults, resultOrigin>>
    /\ failures' = failures \cup {workers[w].delivery}
    /\ workers' = [workers EXCEPT ![w] = IdleWorker]
    /\ UNCHANGED <<producers, nextId, imageUploads, groupVars, storeVars,
                   connVars, frontVars, queryVars, lastHttp>>

\* KafkaConsumer with enable_auto_commit: the positions the consumer has
\* yielded are committed from the poll of the iterator, between messages
AutoCommit(w) ==
    /\ workers[w].pc = "idle"
    /\ position[w] # {}
    /\ jobCommitted' = jobCommitted \cup position[w]
    /\ position' = [position EXCEPT ![w] = {}]
    /\ UNCHANGED <<producers, brokerVars,
                   jobNext, redeliver, deliveryCount, workers,
                   failures, storeVars, connVars, frontVars, queryVars,
                   lastHttp>>

\* the worker process dies (kill -9, out of memory): nothing of the
\* program runs; the group hands its uncommitted offsets to the members
\* that are left
Crash(w) ==
    /\ workers[w].pc \notin {"crashed", "exited"}
    /\ workers' = [workers EXCEPT ![w].pc = "crashed"]
    /\ redeliver' = redeliver \cup (position[w] \ jobCommitted)
    /\ position' = [position EXCEPT ![w] = {}]
    /\ UNCHANGED <<producers, brokerVars, jobNext, jobCommitted, deliveryCount,
                   failures, storeVars, connVars, frontVars, queryVars,
                   lastHttp>>

\* SIGINT / SIGTERM: signal_handler runs on top of whatever the main
\* thread is doing: running = False (read by nobody), cleanup() closes
\* the consumer, which commits its position, and the producer, then
\* sys.exit(0); the SystemExit passes every "except Exception"
signal_handler(w) ==
    /\ workers[w].pc \notin {"crashed", "exited"}
    /\ workers' = [workers EXCEPT ![w].pc = "exited"]
    /\ jobCommitted' = jobCommitted \cup position[w]
    /\ position' = [position EXCEPT ![w] = {}]
    /\ UNCHANGED <<producers, brokerVars,
                   jobNext, redeliver, deliveryCount, failures,
                   storeVars, connVars, frontVars, queryVars, lastHttp>>

\* ------------------------------------------------------- simple_api
\* dict.get(key, default) on a message
Get(d, key, default) == IF key \in DOMAIN d THEN d[key] ELSE default

\* the keyword parameters of KafkaImageProducer.send_image_for_analysis,
\* and the keywords analyze_image calls it with; a keyword the signature
\* does not have makes the call raise TypeError before the body runs
ProducerKeywords == {"image_data", "filename", "user_id"}
AnalyzeImageKeywords == {"image_data", "filename", "request_id", "user_id"}
CallBinds(keywords) == keywords \subseteq ProducerKeywords

\* POST /analyze-image. Every exception of the body, the validation
\* HTTPException(400) included, is caught by "except Exception" and
\* answered with HTTPException(500).
AnalyzeImage(ct, sz, outcome) ==
    /\ queryHandler.pc = "idle"
    /\ IF ~ValidUpload(ct, sz)
       THEN /\ lastHttp' = Http("analyze_image", ct, sz, "none", 500,
                                "error", NoId, <<>>)
            /\ UNCHANGED <<nextId, imageUploads, pending_requests>>
       ELSE /\ nextId <= MaxRequests
            /\ LET request_id == Uuid4
                   sent == JobSendOutcome(sz, outcome)
               IN
               IF ~CallBinds(AnalyzeImageKeywords)
               THEN /\ nextId' = nextId + 1
                    /\ pending_requests' =
                           DictSet(pending_requests, request_id, "submitted")
                    /\ lastHttp' = Http("analyze_image", ct, sz, "none", 500,
                                        "error", NoId, <<>>)
                    /\ UNCHANGED imageUploads
               ELSE \* the producer draws its own uuid4 for the message
                    /\ nextId + 1 <= MaxRequests
                    /\ nextId' = nextId + 2
                    /\ imageUploads' =
                           IF Stored(sent)
                           THEN Append(imageUploads,
                                       JobMessage(nextId + 1, "api-user"))
                           ELSE imageUploads
                    /\ pending_requests' =
                           DictSet(pending_requests, request_id,
                                   IF Raises(sent) THEN "submitted"
                                   ELSE "processing")
                    /\ lastHttp' =
                           IF Raises(sent)
                           THEN Http("analyze_image", ct, sz, sent, 500,
                                     "error", NoId, <<>>)
                           ELSE Http("analyze_image", ct, sz, sent, 200,
                                     "accepted", request_id, <<>>)
    /\ UNCHANGED <<producers, analysisResults, resultOrigin, workerVars,
                   storeVars, connVars, frontVars, analysis_results,
                   consumerThread, queryHandler, resNextQ, shownTerminal>>

\* handle_analysis_result, first statement: the result is stored
ConsumerStore ==
    /\ consumerThread.pc = "idle"
    /\ resNextQ <= Len(analysisResults)
    /\ resNextQ' = resNextQ + 1
    /\ LET result_data == analysisResults[resNextQ].value
           request_id == Get(result_data, "request_id", NoId)
       IN  IF request_id # NoId
           THEN /\ analysis_results' =
                       DictSet(analysis_results, request_id, result_data)
                /\ consumerThread' = [pc |-> "pop", rid |-> request_id]
           ELSE UNCHANGED <<analysis_results, consumerThread>>
    /\ UNCHANGED <<producers, brokerVars,
                   workerVars, storeVars, connVars, frontVars,
                   pending_requests, queryHandler, shownTerminal, lastHttp>>

\* handle_analysis_result, second statement: pending_requests.pop
ConsumerPop ==
    /\ consumerThread.pc = "pop"
    /\ pending_requests' = DictPop(pending_requests, consumerThread.rid)
    /\ consumerThread' = IdleThread
    /\ UNCHANGED <<producers, brokerVars,
                   workerVars, storeVars, connVars, frontVars,
                   analysis_results, queryHandler, resNextQ, shownTerminal,
                   lastHttp>>

\* GET /status: the test of analysis_results
StatusBegin(r) ==
    /\ queryHandler.pc = "idle"
    /\ IF r \in DOMAIN analysis_results
       THEN /\ lastHttp' = Http("get_status", None, 0, "none", 200,
                                "completed", r, <<>>)
            /\ shownTerminal' = shownTerminal \cup {r}
            /\ UNCHANGED queryHandler
       ELSE /\ queryHandler' = [pc |-> "status", rid |-> r]
            /\ UNCHANGED <<lastHttp, shownTerminal>>
    /\ UNCHANGED <<producers, brokerVars,
                   workerVars, storeVars, connVars, frontVars,
                   pending_requests, analysis_results, consumerThread,
                   resNextQ>>

\* GET /status: the test of pending_requests
StatusEnd ==
    /\ queryHandler.pc = "status"
    /\ lastHttp' = Http("get_status", None, 0, "none", 200,
                        IF queryHandler.rid \in DOMAIN pending_requests
                        THEN pending_requests[queryHandler.rid]
                        ELSE "not_found",
                        queryHandler.rid, <<>>)
    /\ queryHandler' = IdleQuery
    /\ UNCHANGED <<producers, brokerVars,
                   workerVars, storeVars, connVars, frontVars,
                   pending_requests, analysis_results, consumerThread,
                   resNextQ, shownTerminal>>

\* the key get_result reads the predictions from
PredictionsKey == "predictions"

\* GET /result: the test of analysis_results and the 200 answer
ResultBegin(r) ==
    /\ queryHandler.pc = "idle"
    /\ IF r \notin DOMAIN analysis_results
       THEN /\ queryHandler' = [pc |-> "result", rid |-> r]
            /\ UNCHANGED lastHttp
       ELSE /\ lastHttp' = Http("get_result", None, 0, "none", 200,
                                "completed", r,
                                Get(analysis_results[r], PredictionsKey, <<>>))
            /\ UNCHANGED queryHandler
    /\ UNCHANGED <<producers, brokerVars,
                   workerVars, storeVars, connVars, frontVars,
                   pending_requests, analysis_results, consumerThread,
                   resNextQ, shownTerminal>>

\* GET /result: 202 for a pending request, 404 otherwise
ResultEnd ==
    /\ queryHandler.pc = "result"
    /\ lastHttp' = IF queryHandler.rid \in DOMAIN pending_requests
                   THEN Http("get_result", None, 0, "none", 202,
                             "in_progress", queryHandler.rid, <<>>)
                   ELSE Http("get_result", None, 0, "none", 404,
                             "not_found", queryHandler.rid, <<>>)
    /\ queryHandler' = IdleQuery
    /\ UNCHANGED <<producers, brokerVars,
                   workerVars, storeVars, connVars, frontVars,
                   pending_requests, analysis_results, consumerThread,
                   resNextQ, shownTerminal>>

\* GET /stats: completed_requests = len(analysis_results)
completed_requests == Cardinality(DOMAIN analysis_results)
\* GET /stats: total_requests = len(pending_requests) +
\* len(analysis_results)
total_requests ==
    Cardinality(DOMAIN pending_requests) +
    Cardinality(DOMAIN analysis_results)

\* DELETE /cleanup: analysis_results.clear()
CleanupBegin ==
    /\ queryHandler.pc = "idle"
    /\ analysis_results' = EmptyDict
    /\ queryHandler' = [pc |-> "cleanup", rid |-> NoId]
    /\ UNCHANGED <<producers, brokerVars,
                   workerVars, storeVars, connVars, frontVars,
                   pending_requests, consumerThread, resNextQ, shownTerminal,
                   lastHttp>>

\* DELETE /cleanup: pending_requests.clear() and the answer
CleanupEnd ==
    /\ queryHandler.pc = "cleanup"
    /\ pending_requests' = EmptyDict
    /\ queryHandler' = IdleQuery
    /\ lastHttp' = Http("cleanup", None, 0, "none", 200, "cleaned", NoId, <<>>)
    /\ UNCHANGED <<producers, brokerVars,
                   workerVars, storeVars, connVars, frontVars,
                   analysis_results, consumerThread, resNextQ, shownTerminal>>

\* the state of everything but the producers when the processes start
InitServices ==
    /\ nextId = 1
    /\ imageUploads = <<>>
    /\ analysisResults = <<>>
    /\ resultOrigin = <<>>
    /\ jobNext = 1
    /\ workers = [w \in Workers |-> IdleWorker]
    /\ position = [w \in Workers |-> {}]
    /\ jobCommitted = {}
    /\ redeliver = {}
    /\ deliveryCount = 0
    /\ failures = {}
    /\ request_user = [r \in RequestIds |-> None]
    /\ user_requests = [u \in Users |-> <<>>]
    /\ now = 0
    /\ request_user_exp = [r \in RequestIds |-> 0]
    /\ user_requests_exp = [u \in Users |-> 0]
    /\ lookups = {}
    /\ active_connections = [i \in Instances |-> [u \in Users |-> NoConn]]
    /\ conns = <<>>
    /\ inbox = <<>>
    /\ sendFailures = {}
    /\ handlers = [i \in Instances |-> IdleHandler]
    /\ routers = [i \in Instances |-> IdleRouter]
    /\ resNextW = 1
    /\ pending_requests = EmptyDict
    /\ analysis_results = EmptyDict
    /\ consumerThread = IdleThread
    /\ queryHandler = IdleQuery
    /\ resNextQ = 1
    /\ shownTerminal = {}
    /\ lastHttp = Http("none", "image/jpeg", 0, "none", 0, "none", NoId, <<>>)

\* the front ends have started: init_kafka has constructed their producers
Init ==
    /\ InitServices
    /\ producers = [i \in Instances |-> ConnectedProducer]

\* the front ends are starting: their producers are entering connect()
InitConnect ==
    /\ InitServices
    /\ producers = [i \in Instances |-> NewProducer]

\* ------------------------------------------------------ specifications
\* Workers: one front-end instance submits, the workers of group
\* clip-processors process, nobody is connected
SubmitW ==
    \E u \in Users, o \in SendOutcomes :
        UploadImage(1, u, "image/jpeg", 51200, o)
TrackW == \E f \in AddRequestFailPoints : UploadTrack(1, f)
NotifyW == UploadNotify(1, "ok")
Dequeue == \E w \in Workers : WorkerDequeue(w)
Analyze == \E w \in Workers, e \in EngineOutcomes : WorkerAnalyze(w, e)
SendResult == \E w \in Workers, o \in SendOutcomes : WorkerSendResult(w, o)
SendError == \E w \in Workers, o \in SendOutcomes : WorkerSendError(w, o)

NextWorker ==
    \/ SubmitW \/ TrackW \/ NotifyW
    \/ Dequeue \/ Analyze \/ SendResult \/ SendError

SpecWorker == Init /\ [][NextWorker]_vars

\* Routing: front-end instances with their connections and result
\* routers, fed by one worker whose engine and broker do not fail
Upload ==
    /\ nextId <= MaxRouted
    /\ \E i \in Instances, u \in Users :
           UploadImage(i, u, "image/jpeg", 51200, "ok")
Track == \E i \in Instances : UploadTrack(i, "none")
Notify == \E i \in Instances : UploadNotify(i, "ok")
Accept == \E i \in Instances, u \in Users : Connect(i, u)
Gone == \E c \in ConnIds : ClientGone(c)
Closed == \E c \in ConnIds : Disconnected(c, "ok")
Consume == \E i \in Instances, r \in RedisOutcomes : RouterConsume(i, r)
Deliver == \E i \in Instances : RouterSend(i, "ok")
Stats == \E i \in Instances : RouterBroadcast(i, "ok")
Worker1 ==
    \/ WorkerDequeue(1)
    \/ \E e \in EngineOutcomes : e.text # "" /\ WorkerAnalyze(1, e)
    \/ WorkerSendResult(1, "ok")
    \/ WorkerSendError(1, "ok")

Next ==
    \/ Upload \/ Track \/ Notify
    \/ Accept \/ Gone \/ Closed
    \/ Worker1
    \/ Consume \/ Deliver \/ Stats

Spec == Init /\ [][Next]_vars

\* Ingress: the two upload endpoints under every content type, payload
\* size and broker outcome, with one user uploading and connecting
UploadRt ==
    \E ct \in ContentTypes, sz \in PayloadSizes, o \in SendOutcomes :
        UploadImage(1, "alice", ct, sz, o)
TrackRt == \E f \in AddRequestFailPoints : UploadTrack(1, f)
NotifyRt == UploadNotify(1, "ok")
AcceptRt == Connect(1, "alice")
UploadApi ==
    \E ct \in ContentTypes, sz \in PayloadSizes, o \in SendOutcomes :
        AnalyzeImage(ct, sz, o)

NextIngress == UploadRt \/ TrackRt \/ NotifyRt \/ AcceptRt \/ UploadApi

SpecIngress == Init /\ [][NextIngress]_vars

\* Query service: simple_api with its results-consumer thread, fed by
\* one realtime front end (its first MaxRouted uploads) and one worker
SubmitQ ==
    /\ nextId <= MaxRouted
    /\ UploadImage(1, "alice", "image/jpeg", 51200, "ok")
TrackQ == UploadTrack(1, "none")
NotifyQ == UploadNotify(1, "ok")
WorkerQ ==
    \/ WorkerDequeue(1)
    \/ \E e \in EngineOutcomes : WorkerAnalyze(1, e)
    \/ \E o \in {"ok", "ack_timeout"} : WorkerSendResult(1, o)
    \/ WorkerSendError(1, "ok")
UploadQ == AnalyzeImage("image/jpeg", 51200, "ok")
Status == \E r \in RequestIds : StatusBegin(r)
Result == \E r \in RequestIds : ResultBegin(r)

NextQuery ==
    \/ SubmitQ \/ TrackQ \/ NotifyQ \/ WorkerQ
    \/ UploadQ \/ ConsumerStore \/ ConsumerPop
    \/ Status \/ StatusEnd \/ Result \/ ResultEnd
    \/ CleanupBegin \/ CleanupEnd

SpecQuery == Init /\ [][NextQuery]_vars

\* Worker life cycle: the workers of group clip-processors with the
\* commits of their consumers, process deaths and termination signals,
\* fed by one front end whose broker does not fail
SubmitL == UploadImage(1, "alice", "image/jpeg", 51200, "ok")
TrackL == UploadTrack(1, "none")
NotifyL == UploadNotify(1, "ok")
Commit == \E w \in Workers : AutoCommit(w)
Crashes == \E w \in Workers : Crash(w)
Signals == \E w \in Workers : signal_handler(w)

NextLifecycle ==
    \/ SubmitL \/ TrackL \/ NotifyL
    \/ Dequeue \/ Analyze \/ SendResult \/ SendError
    \/ Commit \/ Crashes \/ Signals

SpecLifecycle == Init /\ [][NextLifecycle]_vars

\* Correlation store: one front-end instance with its result router, the
\* Redis clock and Redis errors at the owner lookup; one user uploads and
\* connects, and one worker, whose engine does not fail and whose success
\* publication can miss its acknowledgment, processes
UploadS ==
    /\ nextId <= MaxRouted
    /\ UploadImage(1, "alice", "image/jpeg", 51200, "ok")
TrackS == UploadTrack(1, "none")
NotifyS == UploadNotify(1, "ok")
AcceptS == Connect(1, "alice")
WorkerS ==
    \/ WorkerDequeue(1)
    \/ \E e \in EngineOutcomes : ~e.raised /\ WorkerAnalyze(1, e)
    \/ \E o \in {"ok", "ack_timeout"} : WorkerSendResult(1, o)
    \/ WorkerSendError(1, "ok")
ConsumeS == \E r \in RedisOutcomes : RouterConsume(1, r)
DeliverS == RouterSend(1, "ok")
StatsS == RouterBroadcast(1, "ok")

NextStore ==
    \/ UploadS \/ TrackS \/ NotifyS \/ AcceptS
    \/ WorkerS \/ ConsumeS \/ DeliverS \/ StatsS
    \/ Tick

SpecStore == Init /\ [][NextStore]_vars

\* Messages: one front end with two users and one worker under every
\* engine and broker outcome
SubmitM == \E u \in Users : UploadImage(1, u, "image/jpeg", 51200, "ok")
TrackM == UploadTrack(1, "none")
NotifyM == UploadNotify(1, "ok")
WorkerM ==
    \/ WorkerDequeue(1)
    \/ \E e \in EngineOutcomes : WorkerAnalyze(1, e)
    \/ \E o \in SendOutcomes : WorkerSendResult(1, o)
    \/ \E o \in SendOutcomes : WorkerSendError(1, o)

NextMessages == SubmitM \/ TrackM \/ NotifyM \/ WorkerM

SpecMessages == Init /\ [][NextMessages]_vars

\* Start-up: the producers of the front ends connect to a broker that may
\* be unavailable at every attempt. A thread that is in connect() keeps
\* running, and time.sleep returns.
TryConnect == \E i \in Instances, a \in BOOLEAN : ConnectAttempt(i, a)
Sleep == \E i \in Instances : ConnectSleep(i)

NextConnect == TryConnect \/ Sleep

SpecConnect ==
    /\ InitConnect
    /\ [][NextConnect]_vars
    /\ \A i \in Instances :
           WF_vars((\E a \in BOOLEAN : ConnectAttempt(i, a)) \/ ConnectSleep(i))

\* Reconnection: one front-end instance with its result router and one
\* worker, neither Redis nor the broker failing; one user uploads, and
\* connects, goes away and connects again
UploadR ==
    /\ nextId <= MaxRouted
    /\ UploadImage(1, "alice", "image/jpeg", 51200, "ok")
TrackR == UploadTrack(1, "none")
NotifyR == UploadNotify(1, "ok")
AcceptR == Connect(1, "alice")
ClosedR == \E c \in ConnIds : Disconnected(c, "ok")
WorkerR ==
    \/ WorkerDequeue(1)
    \/ \E e \in EngineOutcomes : ~e.raised /\ WorkerAnalyze(1, e)
    \/ WorkerSendResult(1, "ok")
ConsumeR == RouterConsume(1, "ok")
DeliverR == RouterSend(1, "ok")
StatsR == RouterBroadcast(1, "ok")

NextReconnect ==
    \/ UploadR \/ TrackR \/ NotifyR
    \/ AcceptR \/ Gone \/ ClosedR
    \/ WorkerR \/ ConsumeR \/ DeliverR \/ StatsR

SpecReconnect == Init /\ [][NextReconnect]_vars

\* =============================================================== claims
ResultsFor(r) ==
    {k \in DOMAIN analysisResults : analysisResults[k].value.request_id = r}
\* the job message at offset j has been dequeued and its processing is over
Processed(j) ==
    /\ j < jobNext
    /\ \A w \in Workers :
           workers[w].pc = "idle"
           \/ workers[w].msg.request_id # imageUploads[j].value.request_id
\* the user_id an upload was submitted with
Submitter(r) ==
    LET j == CHOOSE k \in DOMAIN imageUploads :
                 imageUploads[k].value.request_id = r
    IN  imageUploads[j].value.user_id
IsUploadOp(h) == h.op \in {"analyze_image", "upload_image"}
\* the validation rule as the interface states it
RejectedInput(h) == h.ctype # "image/jpeg" \/ h.size > 10 * 1024 * 1024
BrokerFailed(h) == h.broker \in {"refused", "ack_timeout"}

\* C1: every published job whose processing is over has exactly one
\* result message on analysis-results, never zero and never two.
C1_ExactlyOneTerminalResult ==
    \A j \in DOMAIN imageUploads :
        Processed(j) =>
            Cardinality(ResultsFor(imageUploads[j].value.request_id)) = 1

\* C2: once the owner of a result has been looked up and the result sent,
\* and nothing more can be published or read for that request, a client
\* that has kept its one connection open since before the upload has
\* received the analysis_result, whichever instance read the result.
NothingMoreFor(r) ==
    /\ \A k \in ResultsFor(r) : k < resNextW
    /\ \A j \in DOMAIN imageUploads :
           imageUploads[j].value.request_id = r => Processed(j)
OnlyConnectionOf(c) ==
    \A d \in DOMAIN conns : conns[d].user = conns[c].user => d = c
Received(c, r) ==
    \E m \in inbox[c] : m.type = "analysis_result" /\ m.request_id = r
C2_ResultReachesLiveClient ==
    \A i \in Instances, c \in DOMAIN conns :
        ( /\ routers[i].pc = "broadcast"
          /\ NothingMoreFor(routers[i].rid)
          /\ conns[c].user = routers[i].user
          /\ conns[c].state = "open"
          /\ conns[c].since <= routers[i].rid
          /\ OnlyConnectionOf(c) )
        => Received(c, routers[i].rid)

\* C3: an analysis_result for r is put on a connection only by the
\* router's send step for r, only on the connection this instance has
\* registered under r's owner, and that connection is the owner's.
OldInbox(c) == IF c \in DOMAIN inbox THEN inbox[c] ELSE {}
C3_OnlyOwnerConnection ==
    [][\A c \in DOMAIN inbox' : \A m \in inbox'[c] \ OldInbox(c) :
          m.type = "analysis_result" =>
              /\ conns[c].user = Submitter(m.request_id)
              /\ \E i \in Instances :
                     /\ routers[i].pc = "send"
                     /\ routers[i].rid = m.request_id
                     /\ request_user[m.request_id] = conns[c].user
                     /\ active_connections[i][conns[c].user] = c]_vars
\* an analysis_result was delivered while another user was connected to
\* the same instance
C3_Witness ==
    \E c \in DOMAIN conns, d \in DOMAIN conns :
        /\ \E m \in inbox[c] : m.type = "analysis_result"
        /\ conns[d].user # conns[c].user
        /\ conns[d].inst = conns[c].inst
        /\ conns[d].state = "open"

\* C4: a valid upload to POST /analyze-image that the broker did not
\* refuse is answered "accepted" with the request_id of its job message.
C4_ValidUploadAccepted ==
    ( /\ lastHttp.op = "analyze_image"
      /\ ~RejectedInput(lastHttp)
      /\ ~BrokerFailed(lastHttp) )
    => /\ lastHttp.status = "accepted"
       /\ \E j \in DOMAIN imageUploads :
              /\ imageUploads[j].key = lastHttp.request_id
              /\ imageUploads[j].value.request_id = lastHttp.request_id

\* C5: the step that answers an upload rejected by validation publishes
\* no job, creates no pending-request record and writes no
\* CorrelationEntry.
C5_RejectedUploadTouchesNothing ==
    [][( /\ lastHttp' # lastHttp
         /\ IsUploadOp(lastHttp')
         /\ RejectedInput(lastHttp') )
       => UNCHANGED <<imageUploads, pending_requests, request_user,
                      user_requests>>]_vars
\* an oversized upload has been answered while jobs of other uploads are
\* on the topic
C5_Witness ==
    /\ IsUploadOp(lastHttp)
    /\ lastHttp.size > 10 * 1024 * 1024
    /\ lastHttp.code # 0
    /\ Len(imageUploads) > 0

\* C6: an upload rejected by validation is answered 400, and 500 is
\* answered only when the broker submission failed.
C6_Rejected400_BrokerFailure500 ==
    IsUploadOp(lastHttp) =>
        /\ RejectedInput(lastHttp) => lastHttp.code = 400
        /\ lastHttp.code = 500 => BrokerFailed(lastHttp)

\* C7: a 200 answer of GET /result carries status completed and the
\* predictions of a result message consumed for that request_id.
C7_ResultCarriesPredictions ==
    (lastHttp.op = "get_result" /\ lastHttp.code = 200) =>
        /\ lastHttp.status = "completed"
        /\ \E k \in ResultsFor(lastHttp.request_id) :
               /\ k < resNextQ
               /\ lastHttp.predictions = analysisResults[k].value.results

\* C8: a status read of a request_id that an earlier status read has
\* shown completed never answers submitted, pending or processing.
C8_StatusNeverRegresses ==
    [][( /\ lastHttp' # lastHttp
         /\ lastHttp'.op = "get_status"
         /\ lastHttp'.request_id \in shownTerminal )
       => lastHttp'.status \notin {"submitted", "pending", "processing"}]_vars
\* a request shown completed is read again after a cleanup, while an
\* upload is on record as submitted
C8_Witness ==
    /\ lastHttp.op = "get_status"
    /\ lastHttp.request_id \in shownTerminal
    /\ lastHttp.status = "not_found"
    /\ \E r \in DOMAIN pending_requests : pending_requests[r] = "submitted"

\* C10: every result published for a job whose engine call raised has the
\* job's request_id, empty results, the exception text in error and
\* status "failed".
C10_EngineErrorPublishedFailed ==
    \A k \in DOMAIN analysisResults :
        resultOrigin[k].engineRaised =>
            /\ analysisResults[k].value.request_id = resultOrigin[k].job
            /\ analysisResults[k].value.results = <<>>
            /\ analysisResults[k].value.error = resultOrigin[k].text
            /\ analysisResults[k].value.status = "failed"

\* the results published by the except branch of process_image_message
IsErrorResult(k) ==
    /\ analysisResults[k].value.results = <<>>
    /\ analysisResults[k].value.error # None
ResultsOfDelivery(d) ==
    {k \in DOMAIN resultOrigin : resultOrigin[k].delivery = d}

\* C11: every delivery of a job message whose processing raised and has
\* returned to the consume loop has an error result on analysis-results.
C11_FailedJobGetsErrorResult ==
    \A d \in failures : \E k \in ResultsOfDelivery(d) : IsErrorResult(k)

\* C12: no offset of image-uploads is committed for group clip-processors
\* before a result for its job has been published, so that a job whose
\* worker dies before publishing is delivered again.
C12_NoCommitBeforeResult ==
    \A k \in jobCommitted :
        ResultsFor(imageUploads[k].value.request_id) # {}

\* C13: two results for one request_id never come from the same delivery
\* of its job message: a second result needs a redelivery.
C13_OneResultPerDelivery ==
    \A k1 \in DOMAIN analysisResults, k2 \in DOMAIN analysisResults :
        ( /\ k1 # k2
          /\ analysisResults[k1].value.request_id =
                 analysisResults[k2].value.request_id )
        => resultOrigin[k1].delivery # resultOrigin[k2].delivery

\* C18: a worker that exited on a termination signal while a job message
\* was in process has published a result for that delivery.
C18_SignalFinishesInFlight ==
    \A w \in Workers :
        (workers[w].pc = "exited" /\ workers[w].msg # NoJob)
        => ResultsOfDelivery(workers[w].delivery) # {}

\* C14: the step that handles a result message leaves exactly one stored
\* result for its request_id, equal to that message, changes no other
\* stored result, and raises the completed count only when the
\* request_id had no stored result.
C14_DuplicatesLastWriteWins ==
    [][resNextQ' = resNextQ + 1 =>
          LET m == analysisResults[resNextQ].value
              r == m.request_id
          IN  /\ DOMAIN analysis_results' = DOMAIN analysis_results \cup {r}
              /\ analysis_results'[r] = m
              /\ \A x \in DOMAIN analysis_results \ {r} :
                     analysis_results'[x] = analysis_results[x]
              /\ completed_requests' =
                     completed_requests
                     + (IF r \in DOMAIN analysis_results THEN 0 ELSE 1)]_vars
\* two different result messages of one request_id have been handled and
\* the second one is the stored one
C14_Witness ==
    \E k1 \in DOMAIN analysisResults, k2 \in DOMAIN analysisResults :
        /\ k1 < k2
        /\ k2 < resNextQ
        /\ analysisResults[k1].key = analysisResults[k2].key
        /\ analysisResults[k1].value # analysisResults[k2].value
        /\ analysisResults[k2].key \in DOMAIN analysis_results
        /\ analysis_results[analysisResults[k2].key] = analysisResults[k2].value
        /\ completed_requests = 1

\* C15: an owner lookup made more than 3600 s after the CorrelationEntry
\* of its request_id was written returns no owner, and the router goes
\* back to its loop without a send.
C15_ExpiredEntryIsAbsent ==
    \A l \in lookups :
        ( /\ request_user_exp[l.rid] # 0
          /\ l.at > request_user_exp[l.rid] )
        => (l.owner = None /\ l.pc = "idle")
\* a result was looked up after the TTL of its entry while the submitter
\* was connected, and it was not delivered
C15_Witness ==
    \E l \in lookups, c \in DOMAIN conns :
        /\ request_user_exp[l.rid] # 0
        /\ l.at > request_user_exp[l.rid]
        /\ l.redis = "ok"
        /\ conns[c].user = Submitter(l.rid)
        /\ conns[c].state = "open"
        /\ ~Received(c, l.rid)

\* C16: an owner lookup that met a Correlation Store error returns no
\* owner, and the router goes back to its consume loop without a send.
C16_StoreErrorIsOwnerUnknown ==
    \A l \in lookups :
        l.redis = "error" => (l.owner = None /\ l.pc = "idle")
\* the lookup of a result whose entry is in the store met an error, and
\* the router has consumed the next result message since
C16_Witness ==
    \E l \in lookups :
        /\ l.redis = "error"
        /\ request_user[l.rid] # None
        /\ resNextW > l.offset + 1
        /\ \A c \in DOMAIN conns : ~Received(c, l.rid)

\* C17: the connection a send failed on is no longer registered once the
\* sending call is over (it stays registered only while the broadcast
\* that met the failure has its clean-up ahead), and a personal message
\* whose send failed is in no client's inbox.
C17_FailedSendDropsEntry ==
    \A f \in sendFailures :
        /\ active_connections[f.inst][f.user] = f.conn
               => ( /\ routers[f.inst].pc = "broadcast"
                    /\ f.user \in routers[f.inst].failed )
        /\ f.message.type # "system_stats"
               => \A c \in DOMAIN inbox : f.message \notin inbox[c]

\* C19: every message on image-uploads and on analysis-results has its
\* payload's request_id as key, and every result message has the
\* request_id and the user_id of the job message it was computed from.
C19_KeyedByRequestId ==
    /\ \A j \in DOMAIN imageUploads :
           imageUploads[j].key = imageUploads[j].value.request_id
    /\ \A k \in DOMAIN analysisResults :
           /\ analysisResults[k].key = analysisResults[k].value.request_id
           /\ analysisResults[k].value.request_id = resultOrigin[k].job
           /\ \E j \in DOMAIN imageUploads :
                  /\ imageUploads[j].value.request_id = resultOrigin[k].job
                  /\ imageUploads[j].value.user_id =
                         analysisResults[k].value.user_id
\* the jobs of two users have results, one from the try branch and one
\* from the except branch
C19_Witness ==
    \E k1 \in DOMAIN analysisResults, k2 \in DOMAIN analysisResults :
        /\ analysisResults[k1].value.user_id = "alice"
        /\ analysisResults[k2].value.user_id = "bob"
        /\ analysisResults[k1].value.results # <<>>
        /\ IsErrorResult(k2)

\* C20: no two job messages carry the same request_id, no request_id of
\* a pending record is the request_id of a job of the other front end,
\* and the request_id an upload is answered with is the request_id of
\* one published job, the one recorded for its user.
JobsWith(r) ==
    {j \in DOMAIN imageUploads : imageUploads[j].value.request_id = r}
C21_EntryWrittenBeforeLookup ==
    \A l \in lookups : request_user_exp[l.rid] # 0

\* C22: a pending-request record exists only for a request whose job
\* message was published, and a status read of a request_id without a
\* published job answers not_found.
C22_PendingOnlyIfPublished ==
    /\ \A r \in DOMAIN pending_requests : JobsWith(r) # {}
    /\ (lastHttp.op = "get_status" /\ JobsWith(lastHttp.request_id) = {}) =>
           lastHttp.status = "not_found"

\* C25: no result message with status failed is published for a delivery
\* whose analysis succeeded.
C25_SucceededNeverPublishedFailed ==
    \A k \in DOMAIN analysisResults :
        ~resultOrigin[k].engineRaised =>
            analysisResults[k].value.status # "failed"

\* C26: while the connection a user's client opened last on an instance is
\* open, the instance's registry entry of the user is that connection.
LatestConnection(c) ==
    \A d \in DOMAIN conns :
        (conns[d].user = conns[c].user /\ conns[d].inst = conns[c].inst) =>
            d <= c
C26_NewestOpenConnectionRegistered ==
    \A c \in DOMAIN conns :
        (IsOpen(c) /\ LatestConnection(c)) =>
            active_connections[conns[c].inst][conns[c].user] = c

\* C23: while the result router's thread is inside its iteration of
\* active_connections, no step of another context (connect, disconnect)
\* changes the instance's registry.
C23_RegistryNotChangedUnderIteration ==
    [][\A i \in Instances :
          ( /\ routers[i].pc = "broadcast"
            /\ routers[i].size # NotStarted
            /\ routers'[i] = routers[i] )
          => active_connections'[i] = active_connections[i]]_vars

\* C24: no step of a result router's thread writes to a connection: the
\* messages of a connection are written by the event loop that accepted
\* it.
C24_RouterThreadNeverSends ==
    [][routers' # routers =>
          \A c \in DOMAIN inbox : inbox'[c] = inbox[c]]_vars

\* C27: an upload whose payload passes validation (an image of at most
\* 10 * 1024 * 1024 bytes) yields a job message, base64-encoded at 4 bytes
\* per 3, no larger than max_request_size: the producer never refuses it
\* for its size.
C27_AcceptedPayloadFitsRequest ==
    ( /\ IsUploadOp(lastHttp)
      /\ IsImageType(lastHttp.ctype)
      /\ lastHttp.size <= 10 * 1024 * 1024 )
    => lastHttp.broker # "too_large"

\* C28: connect makes at most 5 connection attempts, returns after the
\* first that succeeds with a usable producer, has waited 2^k seconds
\* after the k-th failure for k = 1..4, raises after the 5th failure
\* without a usable producer, and always terminates.
ConnectDone(i) == producers[i].pc \in {"returned", "raised"}
C28_ConnectTerminates ==
    /\ [](\A i \in Instances :
            LET P == producers[i]
                failed == IF P.pc = "returned" THEN P.attempts - 1
                          ELSE P.attempts
            IN  /\ P.attempts <= 5
                /\ P.pc = "returned" => P.producer # None
                /\ P.pc # "returned" => P.producer = None
                /\ P.pc = "raised" => failed = 5
                /\ Len(P.slept) =
                       (IF P.pc = "sleep" THEN failed - 1
                        ELSE IF P.pc = "raised" THEN 4 ELSE failed)
                /\ \A k \in DOMAIN P.slept : P.slept[k] = 2 ^ k)
    /\ \A i \in Instances : <>[]ConnectDone(i)
\* one producer has given up after its 5th failure and four waits, the
\* other has connected at its third attempt
C28_Witness ==
    \E i \in Instances, j \in Instances :
        /\ producers[i].pc = "raised"
        /\ producers[i].slept = <<2, 4, 8, 16>>
        /\ producers[j].pc = "returned"
        /\ producers[j].attempts = 3
        /\ producers[j].slept = <<2, 4>>

\* C29: no request_id is in pending_requests and in analysis_results at
\* the same time, so total_requests of /stats counts every request_id
\* once, also between the two statements of the results-consumer thread.
C29_PendingAndResultsDisjoint ==
    /\ DOMAIN pending_requests \cap DOMAIN analysis_results = {}
    /\ total_requests =
           Cardinality(DOMAIN pending_requests \cup DOMAIN analysis_results)
\* the results-consumer thread has stored a result and not yet popped,
\* while a pending record exists
C29_Witness ==
    /\ consumerThread.pc = "pop"
    /\ consumerThread.rid \in DOMAIN analysis_results
    /\ DOMAIN pending_requests # {}
    /\ total_requests = 2

\* C30: a step that removes a registry entry or closes a connection leaves
\* every request_user entry as it was; closing a connection changes, of
\* the registry and the users' request lists, only the entry and the list
\* of the connection's user; and an owner lookup made while the entry of
\* the request is written and not expired yields the submitting user and
\* goes on to the send.
C30_DisconnectKeepsOwnerEntries ==
    [][/\ (\E i \in Instances, u \in Users :
              /\ active_connections[i][u] # NoConn
              /\ active_connections'[i][u] = NoConn)
          => /\ request_user' = request_user
             /\ request_user_exp' = request_user_exp
       /\ \A c \in DOMAIN conns :
              (conns[c].state # "closed" /\ conns'[c].state = "closed") =>
                  /\ request_user' = request_user
                  /\ request_user_exp' = request_user_exp
                  /\ \A u \in Users \ {conns[c].user} :
                         user_requests'[u] = user_requests[u]
                  /\ \A i \in Instances, u \in Users :
                         <<i, u>> # <<conns[c].inst, conns[c].user>> =>
                             active_connections'[i][u] =
                                 active_connections[i][u]
       /\ \A l \in lookups' \ lookups :
              ( /\ l.redis = "ok"
                /\ request_user_exp[l.rid] # 0
                /\ ~Expired(request_user_exp[l.rid], now) )
              => /\ l.owner = Submitter(l.rid)
                 /\ l.pc = "send"]_vars
\* a user's connection was closed after the user's request had been
\* tracked, and a connection the user opened after the upload has
\* received the request's analysis_result
C30_Witness ==
    \E c \in DOMAIN conns, d \in DOMAIN conns, r \in RequestIds :
        /\ c < d
        /\ conns[c].user = conns[d].user
        /\ conns[c].state = "closed"
        /\ conns[c].since <= r
        /\ conns[d].since > r
        /\ request_user[r] = conns[d].user
        /\ user_requests[conns[d].user] = <<>>
        /\ Received(d, r)
====
